---- MODULE Spec2Model ----
(***************************************************************************)
(* Model of the interactive poker simulator (interactive_poker_simulator.py)*)
(* : the session state kept by InteractivePokerSimulator, the command loop  *)
(* (deal / action / reset) and the hand progression and outcome engine.     *)
(*                                                                          *)
(* Units.  Money is counted in cents (100 = $1), so that the float factors  *)
(* 0.3 .. 0.7 applied to whole-dollar amounts stay integral.  Hand strength *)
(* and probabilities are counted in 1/10000 (10000 = 1.0), so that the      *)
(* factors 0.9 and 0.81 applied to the base strengths stay integral.        *)
(* A card "Ah" is the record [rank |-> "A", suit |-> "h"]; a space separated*)
(* card string ("Ah As") is the sequence of its cards.                      *)
(***************************************************************************)
EXTENDS Integers, Sequences, FiniteSets, TLC

VARIABLES
    starting_stack,        \* self.starting_stack
    current_stack,         \* self.current_stack
    hands_played,          \* self.hands_played
    session_hands,         \* self.session_hands: sequence of hand_result records
    current_hand_history,  \* self.current_hand_history
    current_game_state,    \* main_loop's local current_game_state (NoHand = None)
    command,               \* main_loop's local command: the last command read
    result,                \* what the last process_action call returned (NoResult = none yet)
    showdown,              \* locals of simulate_hand_progression when it returned
    stats,                 \* what show_session_stats displayed for the last command (NoStats = nothing)
    probe,                 \* one evaluate_hand_strength call: its arguments and its value
    agents,                \* self.agents: the agents' names in order (<<>> = None)
    current_recommendations, \* main_loop's local current_recommendations (<<>> = None)
    engine                 \* a SimplifiedPokerEngine on its own: players, board, street

vars == <<starting_stack, current_stack, hands_played, session_hands,
          current_hand_history, current_game_state, command, result, showdown,
          stats, probe, agents, current_recommendations, engine>>

----------------------------------------------------------------------------
(* Cards *)

C(r, s) == [rank |-> r, suit |-> s]

suits == <<"h", "d", "c", "s">>
ranks == <<"2", "3", "4", "5", "6", "7", "8", "9", "T", "J", "Q", "K", "A">>

Range(f) == {f[i] : i \in DOMAIN f}

Deck == {C(r, s) : r \in Range(ranks), s \in Range(suits)}

\* Python's ord() of a rank character
ord(ch) ==
    CASE ch = "2" -> 50 [] ch = "3" -> 51 [] ch = "4" -> 52 [] ch = "5" -> 53
      [] ch = "6" -> 54 [] ch = "7" -> 55 [] ch = "8" -> 56 [] ch = "9" -> 57
      [] ch = "A" -> 65 [] ch = "J" -> 74 [] ch = "K" -> 75 [] ch = "Q" -> 81
      [] ch = "T" -> 84

abs(x) == IF x < 0 THEN 0 - x ELSE x
max(a, b) == IF a >= b THEN a ELSE b
min(a, b) == IF a <= b THEN a ELSE b

\* Python's seq[:n]
Take(seq, n) == SubSeq(seq, 1, min(n, Len(seq)))

NoDuplicates(seq) == \A i, j \in DOMAIN seq : i # j => seq[i] # seq[j]

----------------------------------------------------------------------------
(* evaluate_hand_strength *)

\* BaseStrength as if a pair of nines were a small pair
BaseStrengthNarrow(cards) ==
    LET rank1 == cards[1].rank
        suit1 == cards[1].suit
        rank2 == cards[2].rank
        suit2 == cards[2].suit
    IN  IF rank1 = rank2
        THEN IF rank1 \in {"A", "K", "Q"} THEN 8500
             ELSE IF rank1 \in {"J", "T"} THEN 7500
             ELSE 6500
        ELSE IF rank1 \in {"A", "K"} \/ rank2 \in {"A", "K"}
        THEN IF suit1 = suit2 THEN 7000 ELSE 6500
        ELSE IF suit1 = suit2 THEN 4000 + 1000
        ELSE 4000

BaseStrength(cards) ==
    LET rank1 == cards[1].rank
        suit1 == cards[1].suit
        rank2 == cards[2].rank
        suit2 == cards[2].suit
    IN  IF rank1 = rank2
        THEN IF rank1 \in {"A", "K", "Q"} THEN 8500
             ELSE IF rank1 \in {"J", "T", "9"} THEN 7500
             ELSE 6500
        ELSE IF rank1 \in {"A", "K"} \/ rank2 \in {"A", "K"}
        THEN IF suit1 = suit2 THEN 7000 ELSE 6500
        ELSE IF suit1 = suit2 THEN 4000 + 1000
        ELSE 4000

\* FlushPossible as if only a board of one suit counted
FlushPossibleOneSuit(board_cards) ==
    Cardinality({board_cards[i].suit : i \in DOMAIN board_cards}) <= 1

FlushPossible(board_cards) ==
    Cardinality({board_cards[i].suit : i \in DOMAIN board_cards}) <= 2

StraightPossible(board_cards) ==
    \E i, j \in DOMAIN board_cards :
        /\ board_cards[i] # board_cards[j]
        /\ abs(ord(board_cards[i].rank) - ord(board_cards[j].rank)) <= 1

BoardTexture(strength, board_cards) ==
    IF board_cards = <<>> THEN strength
    ELSE LET s1 == IF FlushPossible(board_cards) THEN (strength * 9) \div 10 ELSE strength
         IN  IF StraightPossible(board_cards) THEN (s1 * 9) \div 10 ELSE s1

\* evaluate_hand_strength as if fewer than two hole cards were rated as the
\* weakest hand
evaluate_hand_strength_weakest(hero_cards, board_cards) ==
    IF Len(hero_cards) < 2 THEN 4000
    ELSE min(BoardTexture(BaseStrength(hero_cards), board_cards), 10000)

evaluate_hand_strength(hero_cards, board_cards) ==
    IF Len(hero_cards) < 2 THEN 5000
    ELSE min(BoardTexture(BaseStrength(hero_cards), board_cards), 10000)

----------------------------------------------------------------------------
(* SimplifiedPokerEngine.create_scenario, as far as the simulator reads it *)

positions_6max == <<"UTG", "MP", "CO", "BTN", "SB", "BB">>

IndexOf(seq, x) == CHOOSE i \in DOMAIN seq : seq[i] = x

scenarios ==
    [premium_pair   |-> [hero_position |-> "BTN", hero_cards |-> <<C("A", "h"), C("A", "s")>>,
                         num_opponents |-> 2],
     tough_decision |-> [hero_position |-> "BB", hero_cards |-> <<C("A", "h"), C("Q", "d")>>,
                         num_opponents |-> 3],
     bluff_spot     |-> [hero_position |-> "CO", hero_cards |-> <<C("7", "h"), C("8", "h")>>,
                         num_opponents |-> 2],
     pocket_pair    |-> [hero_position |-> "MP", hero_cards |-> <<C("9", "h"), C("9", "d")>>,
                         num_opponents |-> 4]]

\* setup_hand: the seats taken, the hero's seat last
SeatsOf(hero_position, num_opponents) ==
    IF num_opponents + 1 > Len(positions_6max) THEN Range(positions_6max)
    ELSE LET hero_idx == IndexOf(positions_6max, hero_position) - 1
         IN  {positions_6max[((hero_idx - num_opponents + i) % Len(positions_6max)) + 1] :
                 i \in 0..num_opponents}

\* The game state create_scenario returns (get_game_state after setup_hand and
\* _post_blinds): the fields the simulator keeps or overwrites.  "action" is ""
\* while the dictionary has no such key.
create_scenario(scenario_name) ==
    LET name     == IF scenario_name \in DOMAIN scenarios THEN scenario_name ELSE "premium_pair"
        scenario == scenarios[name]
        seats    == SeatsOf(scenario.hero_position, scenario.num_opponents)
        sb       == IF "SB" \in seats THEN 50 ELSE 0
        bb       == IF "BB" \in seats THEN 100 ELSE 0
        blind    == IF scenario.hero_position = "SB" THEN sb
                    ELSE IF scenario.hero_position = "BB" THEN bb ELSE 0
    IN  [street      |-> "preflop",
         position    |-> scenario.hero_position,
         hole_cards  |-> scenario.hero_cards,
         board       |-> <<>>,
         pot_size    |-> sb + bb,
         stack_size  |-> 10000 - blind,
         bet_to_call |-> max(0, bb),
         opponents   |-> scenario.num_opponents,
         action      |-> ""]

----------------------------------------------------------------------------
(* SimplifiedPokerEngine: setup_hand and advance_street *)

\* reset_game; called: the method called last
reset_game == [players |-> <<>>, board |-> <<>>, street |-> "preflop", called |-> "reset_game"]

\* create_deck: every rank with every suit, rank by rank
create_deck == [i \in 1..52 |-> C(ranks[((i - 1) \div 4) + 1], suits[((i - 1) % 4) + 1])]

Rotate(deck, cut) == [i \in 1..Len(deck) |-> deck[((i + cut - 1) % Len(deck)) + 1]]

Reverse(deck) == [i \in 1..Len(deck) |-> deck[Len(deck) + 1 - i]]

\* random.shuffle: orders it can leave the deck in
Shuffles(deck, cuts) ==
    {Rotate(deck, cut) : cut \in cuts} \cup {Reverse(Rotate(deck, cut)) : cut \in cuts}

\* deal_cards: deck.pop() num_cards times, while the deck has cards
deal_cards(deck, num_cards) ==
    LET n == min(num_cards, Len(deck))
    IN  [cards |-> [i \in 1..n |-> deck[Len(deck) + 1 - i]],
         deck  |-> SubSeq(deck, 1, Len(deck) - n)]

\* The deck without the cards given
Without(deck, cards) == SelectSeq(deck, LAMBDA c : \A i \in DOMAIN cards : cards[i] # c)

\* setup_hand: the positions of the players, in the order they are dealt
PositionsOf(hero_position, num_opponents) ==
    IF num_opponents + 1 > Len(positions_6max) THEN positions_6max
    ELSE LET hero_idx == IndexOf(positions_6max, hero_position) - 1
         IN  [k \in 1..(num_opponents + 1) |->
                 positions_6max[((hero_idx - num_opponents + (k - 1)) % Len(positions_6max)) + 1]]

\* setup_hand, one pass of the loop that creates the players.  hero_cards is
\* <<>> for "random"; two cards are the only input taken as given.
CreatePlayer(position, deck, hero_position, hero_cards) ==
    LET is_hero  == position = hero_position
        explicit == is_hero /\ hero_cards # <<>> /\ Len(hero_cards) = 2
        dealt    == deal_cards(deck, 2)
    IN  [player |-> [position   |-> position,
                     hole_cards |-> IF explicit THEN hero_cards ELSE dealt.cards,
                     is_hero    |-> is_hero],
         deck   |-> IF explicit THEN Without(deck, hero_cards) ELSE dealt.deck]

RECURSIVE CreatePlayers(_, _, _, _, _)
CreatePlayers(positions, deck, hero_position, hero_cards, players) ==
    IF Len(players) = Len(positions) THEN players
    ELSE LET made == CreatePlayer(positions[Len(players) + 1], deck, hero_position, hero_cards)
         IN  CreatePlayers(positions, made.deck, hero_position, hero_cards,
                           Append(players, made.player))

\* setup_hand; deck: the shuffled deck
setup_hand(hero_position, hero_cards, num_opponents, deck) ==
    [players |-> CreatePlayers(PositionsOf(hero_position, num_opponents), deck,
                               hero_position, hero_cards, <<>>),
     board   |-> <<>>,
     street  |-> "preflop",
     called  |-> "setup_hand"]

RECURSIVE HoleCardsOf(_)
HoleCardsOf(players) ==
    IF players = <<>> THEN <<>> ELSE Head(players).hole_cards \o HoleCardsOf(Tail(players))

\* deal_flop, deal_turn, deal_river: the deck they build before shuffling
RemainingDeck(e) ==
    IF e.street = "preflop" THEN Without(create_deck, HoleCardsOf(e.players))
    ELSE Without(Without(create_deck, HoleCardsOf(e.players)), e.board)

\* CardsToDeal as if every street were one card
CardsToDealOne(street) == 1

\* The cards deal_flop, deal_turn and deal_river take
CardsToDeal(street) == IF street = "preflop" THEN 3 ELSE 1

\* advance_street; deck: RemainingDeck shuffled
advance_street(e, deck) ==
    LET new_cards == deal_cards(deck, CardsToDeal(e.street)).cards
        advanced  == [e EXCEPT !.called = "advance_street"]
    IN  IF e.street = "preflop"
        THEN [advanced EXCEPT !.board = new_cards, !.street = "flop"]
        ELSE IF e.street = "flop" /\ new_cards # <<>>
        THEN [advanced EXCEPT !.board = e.board \o new_cards, !.street = "turn"]
        ELSE IF e.street = "turn" /\ new_cards # <<>>
        THEN [advanced EXCEPT !.board = e.board \o new_cards, !.street = "river"]
        ELSE advanced

----------------------------------------------------------------------------
(* generate_board, generate_random_hand, generate_hand_with_progression *)

scenario_names == {"premium_pair", "tough_decision", "bluff_spot", "pocket_pair", "drawing_hand"}

\* What generate_board can return: 3, 4 or 5 cards of the 52, no card twice.
\* Nothing else is excluded from the draw.
IsGeneratedBoard(cards) ==
    /\ Len(cards) \in {3, 4, 5}
    /\ \A i \in DOMAIN cards : cards[i] \in Deck
    /\ NoDuplicates(cards)

generate_board(candidates) == {cards \in candidates : IsGeneratedBoard(cards)}

StreetOfBoard(board_cards) ==
    IF Len(board_cards) = 3 THEN "flop"
    ELSE IF Len(board_cards) = 4 THEN "turn" ELSE "river"

\* rnd: the values the random source hands out during the call
generate_random_hand(stack, rnd) ==
    LET base  == create_scenario(rnd.scenario)
        state == [base EXCEPT !.position    = rnd.position,
                              !.stack_size  = stack,
                              !.pot_size    = rnd.pot_size,
                              !.bet_to_call = rnd.bet_to_call,
                              !.opponents   = rnd.opponents]
    IN  IF rnd.with_board
        THEN [state EXCEPT !.board = rnd.board, !.street = StreetOfBoard(rnd.board)]
        ELSE [state EXCEPT !.street = "preflop"]

HasRank(cards, r) == \E i \in DOMAIN cards : cards[i].rank = r

PairedRanks(cards) == Cardinality({cards[i].rank : i \in DOMAIN cards}) < Len(cards)

\* The hand history built for the dealt state: <<preflop, flop?, turn?, final>>.
\* A history entry without a "board" key carries the empty board.
HandHistory(final_state) ==
    LET hole_cards  == final_state.hole_cards
        board_cards == final_state.board
        has_board   == board_cards # <<>>
        preflop_state ==
            [street      |-> "preflop",
             position    |-> final_state.position,
             hole_cards  |-> hole_cards,
             stack_size  |-> final_state.stack_size,
             pot_size    |-> 300,
             bet_to_call |-> 200,
             opponents   |-> final_state.opponents,
             board       |-> <<>>,
             action      |-> IF has_board
                             THEN IF HasRank(hole_cards, "9") THEN "called with pocket 9s"
                                  ELSE "called"
                             ELSE "preflop decision"]
        flop_cards == Take(board_cards, 3)
        flop_state ==
            [preflop_state EXCEPT
                !.street      = "flop",
                !.board       = flop_cards,
                !.pot_size    = (final_state.pot_size * 4) \div 10,
                !.bet_to_call = (final_state.bet_to_call * 3) \div 10,
                !.action      = IF HasRank(flop_cards, "9") /\ HasRank(hole_cards, "9")
                                THEN "hit bottom set" ELSE "checked, called"]
        turn_cards == Take(board_cards, 4)
        turn_state ==
            [flop_state EXCEPT
                !.street      = "turn",
                !.board       = turn_cards,
                !.pot_size    = (final_state.pot_size * 7) \div 10,
                !.bet_to_call = (final_state.bet_to_call * 6) \div 10,
                !.action      = IF PairedRanks(turn_cards)
                                THEN "turn pairs the board" ELSE "turn changes nothing"]
        final ==
            IF Len(board_cards) = 5
            THEN [final_state EXCEPT
                    !.action = IF HasRank(hole_cards, "9") /\ HasRank(board_cards, "9")
                               THEN "river: full house"
                               ELSE IF PairedRanks(board_cards) THEN "river: paired board"
                               ELSE "river: final bet"]
            ELSE final_state
    IN  <<preflop_state>>
        \o (IF has_board /\ Len(board_cards) >= 3 THEN <<flop_state>> ELSE <<>>)
        \o (IF has_board /\ Len(board_cards) >= 4 THEN <<turn_state>> ELSE <<>>)
        \o <<final>>

\* generate_hand_with_progression returns the final state, the last history entry
generate_hand_with_progression(stack, rnd) ==
    LET history == HandHistory(generate_random_hand(stack, rnd))
    IN  [state |-> history[Len(history)], history |-> history]

----------------------------------------------------------------------------
(* process_action and simulate_hand_progression *)

\* A command line that main_loop routes to process_action: its first word, and
\* what follows it: nothing (arg "none"), a number (amount, in cents) or text
\* float() rejects (arg "malformed").
Command(verb, arg, amount) == [verb |-> verb, arg |-> arg, amount |-> amount]

\* The letters of the words considered
Letters(word) ==
    CASE word = "bet"    -> <<"b", "e", "t">>
      [] word = "better" -> <<"b", "e", "t", "t", "e", "r">>
      [] word = "raise"  -> <<"r", "a", "i", "s", "e">>
      [] word = "fold"   -> <<"f", "o", "l", "d">>
      [] word = "folds"  -> <<"f", "o", "l", "d", "s">>
      [] word = "check"  -> <<"c", "h", "e", "c", "k">>
      [] word = "call"   -> <<"c", "a", "l", "l">>
      [] word = "new"    -> <<"n", "e", "w">>
      [] word = "reset"  -> <<"r", "e", "s", "e", "t">>
      [] word = "stats"  -> <<"s", "t", "a", "t", "s">>
      [] word = ""       -> <<>>

\* str.startswith
StartsWith(word, prefix) ==
    /\ Len(Letters(word)) >= Len(Letters(prefix))
    /\ SubSeq(Letters(word), 1, Len(Letters(prefix))) = Letters(prefix)

\* action.startswith("bet") or action.startswith("raise")
IsBetOrRaise(action) == StartsWith(action.verb, "bet") \/ StartsWith(action.verb, "raise")

\* ParseBetAmount as if an amount that is no number were an omitted amount
ParseBetAmountDefault(action, game_state) ==
    IF IsBetOrRaise(action)
    THEN IF action.arg = "number" THEN action.amount
         ELSE max(game_state.bet_to_call * 2, 500)
    ELSE 0

\* ParseBetAmount as if an amount that is no number left the command without
\* a bet
ParseBetAmountNone(action, game_state) ==
    IF IsBetOrRaise(action)
    THEN IF action.arg = "number" THEN action.amount
         ELSE IF action.arg = "none" THEN max(game_state.bet_to_call * 2, 500)
         ELSE 0
    ELSE 0

\* The amount parsed from the command
ParseBetAmount(action, game_state) ==
    IF IsBetOrRaise(action)
    THEN IF action.arg = "number" THEN action.amount
         ELSE IF action.arg = "none" THEN max(game_state.bet_to_call * 2, 500)
         ELSE 500
    ELSE 0

\* One line of the progression log: what it reports
Line(kind, note, cards, pot) == [kind |-> kind, note |-> note, cards |-> cards, pot |-> pot]

\* FoldAmount as if the fold gave up the pot instead of the bet to call
FoldAmountPot(game_state) == 0 - game_state.pot_size

FoldAmount(game_state) == 0 - game_state.bet_to_call

\* NewStack as if the stack were never updated
NewStackForgotten(stack, amount_change) == stack

\* self.current_stack += amount
NewStack(stack, amount_change) == stack + amount_change

\* The fold branch of process_action
FoldResult(action, game_state, stack) ==
    [action           |-> action,
     outcome          |-> "fold",
     amount_change    |-> FoldAmount(game_state),
     new_stack        |-> NewStack(stack, FoldAmount(game_state)),
     hand_progression |-> <<Line("fold", "hand ends", <<>>, 0)>>]

\* What the hero's action puts into the pot
PotAfterAction(bet_amount, game_state) ==
    IF bet_amount > 0 THEN game_state.pot_size + bet_amount
    ELSE game_state.pot_size + game_state.bet_to_call

\* TotalInvested as if the explicit amount were ignored
TotalInvestedCall(bet_amount, game_state) == game_state.bet_to_call

TotalInvested(bet_amount, game_state) ==
    IF bet_amount > 0 THEN bet_amount ELSE game_state.bet_to_call

street_order == <<"preflop", "flop", "turn", "river">>

StreetsToPlay(street) ==
    LET current_index == IF street \in Range(street_order)
                         THEN IndexOf(street_order, street) ELSE 1
    IN  SubSeq(street_order, current_index + 1, Len(street_order))

\* AllCards as if the board were generated afresh whatever is on the table
AllCardsFresh(board_cards, generated) == generated

\* all_cards: the cards the streets are dealt from
AllCards(board_cards, generated) ==
    IF board_cards = <<>> THEN generated
    ELSE LET needed_cards == 5 - Len(board_cards)
         IN  IF needed_cards > 0 THEN board_cards \o Take(generated, needed_cards)
             ELSE board_cards

\* f"{current_pot:.0f}": cents shown as whole dollars, rounded to the nearest,
\* an exact half to the even neighbour
FormatDollars(cents) ==
    LET floor == cents \div 100
        rest  == cents % 100
    IN  100 * (IF rest > 50 \/ (rest = 50 /\ floor % 2 = 1) THEN floor + 1 ELSE floor)

\* PotAfterStreet as if the flop, too, came with a round of betting
PotAfterStreetFlopBet(next_street, current_pot, rnd) ==
    IF next_street = "river" THEN current_pot + rnd.river_bet
    ELSE current_pot + rnd.turn_bet

\* current_pot once the street is dealt
PotAfterStreet(next_street, current_pot, rnd) ==
    IF next_street = "turn" THEN current_pot + rnd.turn_bet
    ELSE IF next_street = "river" THEN current_pot + rnd.river_bet
    ELSE current_pot

\* The street loop's branch that deals next_street
DealStreet(st, next_street, all_cards, rnd) ==
    LET n     == IndexOf(street_order, next_street) + 1
        pot   == PotAfterStreet(next_street, st.current_pot, rnd)
        cards == IF next_street = "flop" THEN Take(all_cards, 3) ELSE <<all_cards[n]>>
    IN  [st EXCEPT !.board_cards = Take(all_cards, n),
                   !.current_pot = pot,
                   !.progression = Append(@, Line(next_street, "", cards,
                                                  IF next_street = "flop" THEN pot
                                                  ELSE FormatDollars(pot)))]

\* The body of the street loop, once.  st: the loop's locals.
StreetBody(st, next_street, all_cards, hero_cards, rnd) ==
    IF next_street = "flop" /\ Len(st.board_cards) = 0
    THEN DealStreet(st, next_street, all_cards, rnd)
    ELSE IF next_street = "turn" /\ Len(st.board_cards) = 3
    THEN IF Len(all_cards) > 3 THEN DealStreet(st, next_street, all_cards, rnd) ELSE st
    ELSE IF next_street = "river" /\ Len(st.board_cards) = 4
    THEN LET dealt == IF Len(all_cards) > 4 THEN DealStreet(st, next_street, all_cards, rnd)
                      ELSE st
         IN  [dealt EXCEPT !.hand_strength = evaluate_hand_strength(hero_cards, dealt.board_cards)]
    ELSE st

\* One pass of the street loop; pot_trace keeps current_pot as each pass
\* leaves it, and whether the pass dealt its street
PlayStreet(st, next_street, all_cards, hero_cards, rnd) ==
    LET after == StreetBody(st, next_street, all_cards, hero_cards, rnd)
    IN  [after EXCEPT !.pot_trace =
            Append(@, [street |-> next_street,
                       dealt  |-> after.board_cards # st.board_cards,
                       board  |-> after.board_cards,
                       pot    |-> after.current_pot])]

RECURSIVE PlayStreets(_, _, _, _, _)
PlayStreets(st, streets_to_play, all_cards, hero_cards, rnd) ==
    IF streets_to_play = <<>> THEN st
    ELSE PlayStreets(PlayStreet(st, Head(streets_to_play), all_cards, hero_cards, rnd),
                     Tail(streets_to_play), all_cards, hero_cards, rnd)

IsLatePosition(position) == position \in {"BTN", "CO"}

\* IsRaise as if a bet earned the aggression bonus too
IsRaiseOrBet(action) == action.verb \in {"bet", "raise"}

\* action.startswith("raise")
IsRaise(action) == StartsWith(action.verb, "raise")

WinProbability(hand_strength, position, action) ==
    hand_strength + (IF IsLatePosition(position) THEN 1000 ELSE 0)
                  + (IF IsRaise(action) THEN 500 ELSE 0)

\* Outcome as if the comparison were <=
OutcomeAtMost(draw, win_probability) == IF draw <= win_probability THEN "win" ELSE "lose"

\* random.random() < win_probability
Outcome(draw, win_probability) == IF draw < win_probability THEN "win" ELSE "lose"

ResultAmount(outcome, current_pot, total_invested) ==
    IF outcome = "win" THEN current_pot - total_invested ELSE 0 - total_invested

FinalBoard(all_cards, board_cards) ==
    IF Len(all_cards) >= 5 THEN Take(all_cards, 5) ELSE board_cards

\* ClosingLines as if the opponent acted after the showdown
ClosingLinesShowdownFirst(rnd, final_board, outcome, current_pot) ==
    <<Line("showdown", "", final_board, 0),
      Line("opponent", rnd.opponent_action, <<>>, 0),
      IF outcome = "win" THEN Line("winner", "", <<>>, FormatDollars(current_pot))
      ELSE Line("lose", "", rnd.opponent_hand, 0)>>

\* The entries logged after the street loop: opponent action, showdown, result
ClosingLines(rnd, final_board, outcome, current_pot) ==
    <<Line("opponent", rnd.opponent_action, <<>>, 0),
      Line("showdown", "", final_board, 0),
      IF outcome = "win" THEN Line("winner", "", <<>>, FormatDollars(current_pot))
      ELSE Line("lose", "", rnd.opponent_hand, 0)>>

\* simulate_hand_progression: what it returns (ret) and its locals when it
\* returns (locals).  rnd: the values the random source hands out.
simulate_hand_progression(action, bet_amount, game_state, rnd) ==
    LET hero_cards == game_state.hole_cards
        start == [board_cards   |-> game_state.board,
                  current_pot   |-> PotAfterAction(bet_amount, game_state),
                  hand_strength |-> evaluate_hand_strength(hero_cards, game_state.board),
                  progression   |-> <<Line("action", action.verb, <<>>, IF bet_amount > 0 THEN bet_amount ELSE 0)>>,
                  pot_trace     |-> <<>>]
        total_invested  == TotalInvested(bet_amount, game_state)
        all_cards       == AllCards(game_state.board, rnd.board)
        st              == PlayStreets(start, StreetsToPlay(game_state.street),
                                       all_cards, hero_cards, rnd)
        win_probability == WinProbability(st.hand_strength, game_state.position, action)
        final_board     == FinalBoard(all_cards, st.board_cards)
        outcome         == Outcome(rnd.draw, win_probability)
        result_amount   == ResultAmount(outcome, st.current_pot, total_invested)
        progression     ==
            st.progression \o ClosingLines(rnd, final_board, outcome, st.current_pot)
    IN  [ret    |-> [action           |-> action,
                     outcome          |-> outcome,
                     amount_change    |-> result_amount,
                     hand_progression |-> progression,
                     final_board      |-> final_board,
                     final_pot        |-> st.current_pot],
         locals |-> [taken            |-> TRUE,
                     pot_after_action |-> start.current_pot,
                     total_invested   |-> total_invested,
                     board_cards      |-> st.board_cards,
                     pot_trace        |-> st.pot_trace,
                     hand_strength    |-> st.hand_strength,
                     win_probability  |-> win_probability,
                     draw             |-> rnd.draw]]

\* HandResult as if the hand were numbered with the counter as it stands
HandResultCountedFromZero(hands, game_state, action, res, stack) ==
    [hand_number  |-> hands,
     game_state   |-> game_state,
     action       |-> action,
     outcome      |-> res.outcome,
     stack_change |-> res.amount_change,
     final_stack  |-> stack,
     progression  |-> res.hand_progression]

\* The record process_action appends to session_hands
HandResult(hands, game_state, action, res, stack) ==
    [hand_number  |-> hands + 1,
     game_state   |-> game_state,
     action       |-> action,
     outcome      |-> res.outcome,
     stack_change |-> res.amount_change,
     final_stack  |-> stack,
     progression  |-> res.hand_progression]

NoShowdown == [taken |-> FALSE]

\* process_action: the result returned, the stack and the ledger record it
\* leaves, and the locals of the progression it ran (none on a fold)
process_action(action, game_state, stack, hands, rnd) ==
    LET bet_amount == ParseBetAmount(action, game_state)
    IN  IF action.verb = "fold" /\ action.arg = "none"
        THEN LET res == FoldResult(action, game_state, stack)
             IN  [result      |-> res,
                  stack       |-> res.new_stack,
                  hand_result |-> HandResult(hands, game_state, action, res, res.new_stack),
                  locals      |-> NoShowdown]
        ELSE LET sim       == simulate_hand_progression(action, bet_amount, game_state, rnd)
                 new_stack == NewStack(stack, sim.ret.amount_change)
                 res       == [new_stack |-> new_stack] @@ sim.ret
             IN  [result      |-> res,
                  stack       |-> new_stack,
                  hand_result |-> HandResult(hands, game_state, action, res, new_stack),
                  locals      |-> sim.locals]

----------------------------------------------------------------------------
(* The session: construction and the commands of main_loop *)

NoHand == [street |-> "none"]

NoResult == [outcome |-> "none"]

NoStats == [shown |-> "nothing"]

\* The agents setup_agents creates, in the order of self.agents
AgentNames == <<"RulesAgent", "PositionAgent", "MathAgent", "JonathanAgent">>

\* What agent.get_recommendation does: it raises, or returns its record
AgentRaises == [raises |-> TRUE, confidence |-> 0]

AgentAnswers(confidence) == [raises |-> FALSE, confidence |-> confidence]

\* "if not self.agents: raise Exception"
Raises(agent_list) == agent_list = <<>>

\* get_agent_recommendations as if a failing agent were left out
get_agent_recommendations_skipping(agent_list, reply) ==
    LET answered == SelectSeq(agent_list, LAMBDA name : ~reply[name].raises)
    IN  [i \in DOMAIN answered |->
            [agent          |-> answered[i],
             recommendation |-> "advice",
             confidence     |-> reply[answered[i]].confidence,
             reasoning      |-> "analysis"]]

\* get_agent_recommendations when it returns; reply: what each agent does
get_agent_recommendations(agent_list, reply) ==
    [i \in DOMAIN agent_list |->
        IF reply[agent_list[i]].raises
        THEN [agent          |-> agent_list[i],
              recommendation |-> "Unable to analyze - check connection",
              confidence     |-> 0,
              reasoning      |-> "Agent error"]
        ELSE [agent          |-> agent_list[i],
              recommendation |-> "advice",
              confidence     |-> reply[agent_list[i]].confidence,
              reasoning      |-> "analysis"]]

\* No value returned yet
NotReturned == 0 - 1

NoProbe == [hero_cards |-> <<>>, board_cards |-> <<>>, value |-> NotReturned]

\* Variant of CountWins: every hand that was not lost counts
CountNotLost(hands) == Cardinality({i \in DOMAIN hands : hands[i].outcome # "lose"})

\* sum(1 for h in self.session_hands if h["outcome"] == "win")
CountWins(hands) == Cardinality({i \in DOMAIN hands : hands[i].outcome = "win"})

\* f"{win_rate:.1%}": the quotient wins / of in tenths of a percent, rounded
\* to the nearest, an exact half to the even neighbour
FormatPercent(wins, of) ==
    LET floor == (wins * 1000) \div of
        twice == 2 * ((wins * 1000) % of)
    IN  IF twice > of \/ (twice = of /\ floor % 2 = 1) THEN floor + 1 ELSE floor

\* show_session_stats: what it displays
show_session_stats(hands, starting, current) ==
    IF hands = <<>> THEN [shown |-> "no hands"]
    ELSE [shown          |-> "stats",
          hands_played   |-> Len(hands),
          starting_stack |-> starting,
          current_stack  |-> current,
          total_profit   |-> current - starting,
          win_rate       |-> FormatPercent(CountWins(hands), Len(hands))]

\* The branch of main_loop that hands the command to process_action
IsActionCommand(line) ==
    \/ line.verb \in {"fold", "call", "check"} /\ line.arg = "none"
    \/ StartsWith(line.verb, "bet")
    \/ StartsWith(line.verb, "raise")

\* The commands main_loop tests for before the action branch, and help
ListedCommands ==
    {"quit", "q", "exit", "new", "n", "deal", "stats", "agents", "reset", "help", "h"}

\* __init__, and main_loop before its first command
Constructed ==
    /\ starting_stack = 10000
    /\ current_stack = starting_stack
    /\ hands_played = 0
    /\ session_hands = <<>>
    /\ current_hand_history = <<>>
    /\ current_game_state = NoHand
    /\ command = Command("", "none", 0)
    /\ result = NoResult
    /\ showdown = NoShowdown
    /\ stats = NoStats

\* __init__ with setup_agents, which creates the four agents or leaves
\* self.agents None
ConstructedWith(created) ==
    /\ Constructed
    /\ agents = created
    /\ current_recommendations = <<>>
    /\ engine = reset_game

Init == ConstructedWith(AgentNames) /\ probe = NoProbe

\* "new": deal a hand.  deals: the outcomes of the random draws considered.
NewHand(deals, replies) ==
    \E rnd \in deals :
        \E dealt \in {generate_hand_with_progression(current_stack, rnd)}, reply \in replies :
            /\ command' = Command("new", "none", 0)
            /\ current_game_state' = dealt.state
            /\ current_hand_history' = dealt.history
            /\ current_recommendations' =
                  IF Raises(agents) THEN current_recommendations
                  ELSE get_agent_recommendations(agents, reply)
            /\ stats' = NoStats
            /\ UNCHANGED <<starting_stack, current_stack, hands_played, session_hands,
                           result, showdown, probe, agents, engine>>

\* fold / check / call / bet / raise with a hand dealt
PlayerAction(commands, rolls) ==
    /\ current_game_state # NoHand
    /\ \E action \in commands, rnd \in rolls :
        /\ IsActionCommand(action)
        /\ \E done \in {process_action(action, current_game_state, current_stack,
                                    hands_played, rnd)} :
            /\ command' = action
            /\ result' = done.result
            /\ showdown' = done.locals
            /\ current_stack' = done.stack
            /\ session_hands' = Append(session_hands, done.hand_result)
            /\ hands_played' = hands_played + 1
            /\ current_game_state' = NoHand
            /\ stats' = NoStats
            /\ UNCHANGED <<starting_stack, current_hand_history, probe, agents,
                           current_recommendations, engine>>

\* Reset as if the hand counter and the ledger were kept
ResetStackOnly ==
    /\ command' = Command("reset", "none", 0)
    /\ current_stack' = starting_stack
    /\ current_hand_history' = <<>>
    /\ stats' = NoStats
    /\ UNCHANGED <<starting_stack, hands_played, session_hands, current_game_state,
                   result, showdown, probe, agents,
                   current_recommendations, engine>>

\* "reset"
Reset ==
    /\ command' = Command("reset", "none", 0)
    /\ current_stack' = starting_stack
    /\ hands_played' = 0
    /\ session_hands' = <<>>
    /\ current_hand_history' = <<>>
    /\ stats' = NoStats
    /\ UNCHANGED <<starting_stack, current_game_state, result, showdown, probe, agents,
                   current_recommendations, engine>>

\* "stats"
ShowStats ==
    /\ command' = Command("stats", "none", 0)
    /\ stats' = show_session_stats(session_hands, starting_stack, current_stack)
    /\ UNCHANGED <<starting_stack, current_stack, hands_played, session_hands,
                   current_hand_history, current_game_state, result, showdown, probe, agents,
                   current_recommendations, engine>>

\* fold / check / call / bet / raise with no hand dealt: "No active hand!"
RejectedAction(commands) ==
    /\ current_game_state = NoHand
    /\ \E action \in commands :
        /\ IsActionCommand(action)
        /\ command' = action
        /\ stats' = NoStats
        /\ UNCHANGED <<starting_stack, current_stack, hands_played, session_hands,
                       current_hand_history, current_game_state, result, showdown, probe, agents,
                   current_recommendations, engine>>

\* Any other line: "Unknown command"
UnknownCommand(lines) ==
    \E line \in lines :
        /\ line.verb \notin ListedCommands
        /\ ~IsActionCommand(line)
        /\ command' = line
        /\ stats' = NoStats
        /\ UNCHANGED <<starting_stack, current_stack, hands_played, session_hands,
                       current_hand_history, current_game_state, result, showdown, probe, agents,
                   current_recommendations, engine>>

----------------------------------------------------------------------------
(* The random draws and the commands considered *)

DealDraws(names, positions, pots, bets, opponents, boards) ==
    [scenario : names, position : positions, pot_size : pots, bet_to_call : bets,
     opponents : opponents, with_board : {TRUE}, board : generate_board(boards)]
    \cup
    [scenario : names, position : positions, pot_size : pots, bet_to_call : bets,
     opponents : opponents, with_board : {FALSE}, board : {<<>>}]

ActionDraws(boards, turn_bets, river_bets, opponent_actions, draws, opponent_hands) ==
    [board : generate_board(boards), turn_bet : turn_bets, river_bet : river_bets,
     opponent_action : opponent_actions, draw : draws, opponent_hand : opponent_hands]

\* Boards generate_board may return
Board_Kd7c2s     == <<C("K", "d"), C("7", "c"), C("2", "s")>>
Board_AhKh2h     == <<C("A", "h"), C("K", "h"), C("2", "h")>>
Board_Kd7c2sTd   == <<C("K", "d"), C("7", "c"), C("2", "s"), C("T", "d")>>
Board_9c9s4dJh   == <<C("9", "c"), C("9", "s"), C("4", "d"), C("J", "h")>>
Board_QsJd8c5h3d == <<C("Q", "s"), C("J", "d"), C("8", "c"), C("5", "h"), C("3", "d")>>
Board_2c3c4d7h8h == <<C("2", "c"), C("3", "c"), C("4", "d"), C("7", "h"), C("8", "h")>>

----------------------------------------------------------------------------
(* Spec: a session of up to MaxHands recorded hands between resets *)

MaxHands == 2

SessionDeals ==
    DealDraws({"premium_pair"}, {"BTN"}, {1000}, {400}, {2}, {Board_Kd7c2sTd})

SessionCommands ==
    {Command("fold", "none", 0), Command("call", "none", 0), Command("raise", "number", 600)}

SessionRolls ==
    ActionDraws({Board_QsJd8c5h3d}, {500}, {1000}, {"calls"}, {0, 9999},
                {<<C("K", "h"), C("Q", "d")>>})

\* Every agent answers
AllAnswer == [name \in Range(AgentNames) |-> AgentAnswers(8000)]

Deal == NewHand(SessionDeals, {AllAnswer})

Act == Len(session_hands) < MaxHands /\ PlayerAction(SessionCommands, SessionRolls)

Stats == ShowStats

Next == Deal \/ Act \/ Reset \/ Stats

Spec == Init /\ [][Next]_vars

----------------------------------------------------------------------------
(* SpecHand: the first hand of a session, dealt and played once *)

HandBoards ==
    {Board_Kd7c2s, Board_AhKh2h, Board_Kd7c2sTd, Board_9c9s4dJh,
     Board_QsJd8c5h3d, Board_2c3c4d7h8h}

HandDeals ==
    DealDraws(scenario_names, {"BTN", "CO", "SB"}, {500}, {0, 400}, {3}, HandBoards)

HandCommands ==
    {Command("fold", "none", 0), Command("check", "none", 0), Command("call", "none", 0),
     Command("bet", "none", 0), Command("bet", "number", 600),
     Command("raise", "none", 0), Command("raise", "number", 600),
     Command("raise", "malformed", 0)}

HandRolls ==
    ActionDraws(HandBoards, {500, 1500}, {1000, 2500}, {"calls", "raises"},
                {0, 7000, 9999}, {<<C("K", "h"), C("Q", "d")>>})

DealFirst == session_hands = <<>> /\ current_game_state = NoHand /\ NewHand(HandDeals, {AllAnswer})

ActFirst == session_hands = <<>> /\ PlayerAction(HandCommands, HandRolls)

NextHand == DealFirst \/ ActFirst

SpecHand == Init /\ [][NextHand]_vars

----------------------------------------------------------------------------
(* evaluate_hand_strength on its own: every pair of hole cards before the
   flop, and a sample of hole cards against every flop of a part of the deck
   and against longer boards *)

ProbeHoles ==
    {<<C("A", "h"), C("A", "s")>>, <<C("9", "c"), C("9", "d")>>, <<C("7", "h"), C("7", "d")>>,
     <<C("A", "h"), C("K", "d")>>, <<C("K", "h"), C("Q", "h")>>, <<C("8", "h"), C("7", "h")>>,
     <<C("7", "h"), C("2", "d")>>}

ShortHoles == {<<>>, <<C("A", "h")>>}

AllHoles == {<<a, b>> : a \in Deck, b \in Deck} \ {<<a, a>> : a \in Deck}

FlopDeck == {C(r, s) : r \in {"2", "3", "9", "T", "J", "K"}, s \in {"h", "d", "c"}}

ProbeFlops ==
    {b \in {<<x, y, z>> : x \in FlopDeck, y \in FlopDeck, z \in FlopDeck} : NoDuplicates(b)}

ProbeBoards ==
    {Board_Kd7c2sTd, Board_9c9s4dJh, Board_QsJd8c5h3d, Board_2c3c4d7h8h,
     <<C("A", "h"), C("Q", "h"), C("7", "h"), C("4", "h")>>,
     <<C("A", "h"), C("Q", "d"), C("7", "c"), C("4", "s"), C("9", "h")>>,
     <<C("9", "h"), C("T", "d"), C("5", "c"), C("2", "s")>>}

ProbeInputs ==
    (AllHoles \X {<<>>})
        \cup ((ProbeHoles \cup ShortHoles) \X (ProbeFlops \cup ProbeBoards \cup {<<>>}))

InitStrength ==
    /\ ConstructedWith(AgentNames)
    /\ \E input \in ProbeInputs :
          probe = [hero_cards |-> input[1], board_cards |-> input[2], value |-> NotReturned]

Evaluate ==
    /\ probe.value = NotReturned
    /\ probe' = [probe EXCEPT
                    !.value = evaluate_hand_strength(probe.hero_cards, probe.board_cards)]
    /\ UNCHANGED <<starting_stack, current_stack, hands_played, session_hands,
                   current_hand_history, current_game_state, command, result, showdown,
                   stats, agents, current_recommendations, engine>>

NextStrength == Evaluate

SpecStrength == InitStrength /\ [][NextStrength]_vars

----------------------------------------------------------------------------
(* The command loop: one situation, every kind of line main_loop can read *)

MaxLoopHands == 1

LoopLines ==
    {Command("fold", "none", 0), Command("call", "none", 0), Command("raise", "none", 0),
     Command("bet", "number", 50000), Command("better", "none", 0),
     Command("folds", "none", 0), Command("fold", "malformed", 0)}

ActLoop == Len(session_hands) < MaxLoopHands /\ PlayerAction(LoopLines, SessionRolls)

ActNoHand == RejectedAction(LoopLines)

Other == UnknownCommand(LoopLines)

NextLoop == Deal \/ ActLoop \/ Reset \/ ActNoHand \/ Other

SpecLoop == Init /\ [][NextLoop]_vars

----------------------------------------------------------------------------
(* Dealing with and without agents: setup_agents succeeded or failed, and
   each agent answers or raises *)

AgentReplies == [Range(AgentNames) -> {AgentRaises, AgentAnswers(8000)}]

InitAgents ==
    /\ \E created \in {AgentNames, <<>>} : ConstructedWith(created)
    /\ probe = NoProbe

DealAgents == NewHand(SessionDeals, AgentReplies)

NextAgents == DealAgents \/ ActLoop \/ ActNoHand

SpecAgents == InitAgents /\ [][NextAgents]_vars

----------------------------------------------------------------------------
(* The engine on its own: hands set up from the scenarios and from other
   arguments, then advanced street by street *)

EngineSetups ==
    {[hero_position |-> scenarios[name].hero_position,
      hero_cards    |-> scenarios[name].hero_cards,
      num_opponents |-> scenarios[name].num_opponents] : name \in DOMAIN scenarios}
    \cup
    {[hero_position |-> "BTN", hero_cards |-> <<>>, num_opponents |-> 1],
     [hero_position |-> "CO", hero_cards |-> <<C("K", "s"), C("K", "d")>>, num_opponents |-> 6]}

SetupCuts == {0, 3, 30, 50}

StreetCuts == {0, 21}

SetupHand ==
    /\ \E setup \in EngineSetups, deck \in Shuffles(create_deck, SetupCuts) :
          engine' = setup_hand(setup.hero_position, setup.hero_cards, setup.num_opponents, deck)
    /\ UNCHANGED <<starting_stack, current_stack, hands_played, session_hands,
                   current_hand_history, current_game_state, command, result, showdown,
                   stats, probe, agents, current_recommendations>>

AdvanceStreet ==
    /\ engine.players # <<>>
    /\ \E deck \in Shuffles(RemainingDeck(engine), StreetCuts) :
          engine' = advance_street(engine, deck)
    /\ UNCHANGED <<starting_stack, current_stack, hands_played, session_hands,
                   current_hand_history, current_game_state, command, result, showdown,
                   stats, probe, agents, current_recommendations>>

NextEngine == SetupHand \/ AdvanceStreet

SpecEngine == Init /\ [][NextEngine]_vars

----------------------------------------------------------------------------
(* Properties *)

ActionVerbs == {"fold", "check", "call", "bet", "raise"}

LastHand == session_hands[Len(session_hands)]

\* process_action has just handled the command read
JustActed == IsActionCommand(command) /\ session_hands # <<>> /\ LastHand.action = command

\* ... and the command was not a fold, so a progression was simulated
JustPlayed == JustActed /\ command.verb # "fold"

HoleAndBoard(game_state) == game_state.hole_cards \o game_state.board

RECURSIVE SumStackChange(_)
SumStackChange(hands) ==
    IF hands = <<>> THEN 0
    ELSE hands[Len(hands)].stack_change + SumStackChange(SubSeq(hands, 1, Len(hands) - 1))

\* C1: after a non-fold action on a situation whose own cards are distinct, no
\* card appears twice among the hero's hole cards and the board at showdown
\* (every generated community card differs from the hole cards and from the
\* board cards already there).
C1_NoDuplicateAtShowdown ==
    (JustPlayed /\ NoDuplicates(HoleAndBoard(LastHand.game_state)))
        => NoDuplicates(LastHand.game_state.hole_cards \o result.final_board)

\* C2: a fold, at any street, returns outcome "fold" with
\* amount_change = -bet_to_call, takes exactly bet_to_call off current_stack,
\* logs exactly one progression entry, deals no community card and leaves the
\* situation (its pot_size included) as it was.
C2_Fold ==
    [][(Len(session_hands') = Len(session_hands) + 1 /\ command'.verb = "fold")
        => /\ result'.outcome = "fold"
           /\ result'.amount_change = 0 - current_game_state.bet_to_call
           /\ current_stack' = current_stack - current_game_state.bet_to_call
           /\ result'.new_stack = current_stack'
           /\ Len(result'.hand_progression) = 1
           /\ "final_board" \notin DOMAIN result'
           /\ showdown' = NoShowdown
           /\ session_hands'[Len(session_hands')].game_state = current_game_state
           /\ session_hands'[Len(session_hands')].stack_change = result'.amount_change]_vars

C2_Witness ==
    /\ JustActed
    /\ command.verb = "fold"
    /\ LastHand.game_state.street = "turn"
    /\ LastHand.game_state.bet_to_call > 0
    /\ current_stack = starting_stack - LastHand.game_state.bet_to_call

\* C3: current_stack is starting_stack plus the sum of stack_change over
\* session_hands, every record's final_stack is the previous record's
\* final_stack (starting_stack for the first) plus its stack_change, and a
\* command appends at most one record to the ledger.
C3_LedgerChain ==
    /\ current_stack = starting_stack + SumStackChange(session_hands)
    /\ \A i \in DOMAIN session_hands :
          session_hands[i].final_stack =
              (IF i = 1 THEN starting_stack ELSE session_hands[i - 1].final_stack)
              + session_hands[i].stack_change

C3_StackLedger ==
    /\ []C3_LedgerChain
    /\ [][\/ session_hands' = session_hands
          \/ session_hands' = <<>>
          \/ /\ Len(session_hands') = Len(session_hands) + 1
             /\ SubSeq(session_hands', 1, Len(session_hands)) = session_hands
             /\ IsActionCommand(command')]_vars

C3_Witness ==
    /\ Len(session_hands) = 2
    /\ session_hands[1].stack_change > 0
    /\ session_hands[2].stack_change < 0
    /\ current_stack # starting_stack

\* C4: a non-fold hand ends in win or lose, never anything else: win exactly
\* when the uniform draw is below win_probability, with
\* amount_change = final_pot - total_invested on a win and -total_invested on
\* a loss.
C4_Outcome ==
    JustPlayed
        => /\ showdown.taken
           /\ result.outcome \in {"win", "lose"}
           /\ LastHand.outcome = result.outcome
           /\ (result.outcome = "win") <=> (showdown.draw < showdown.win_probability)
           /\ result.outcome = "win"
                 => result.amount_change = result.final_pot - showdown.total_invested
           /\ result.outcome = "lose"
                 => result.amount_change = 0 - showdown.total_invested

C4_Witness ==
    /\ JustPlayed
    /\ result.outcome = "lose"
    /\ showdown.draw = showdown.win_probability
    /\ showdown.total_invested > 0

\* C5: win_probability is the hand strength, plus 0.10 exactly when the
\* position is BTN or CO, plus 0.05 exactly when the action is a raise; a
\* bet, call or check adds nothing, and nothing else enters it.
C5_WinProbability ==
    JustPlayed
        => showdown.win_probability =
              showdown.hand_strength
              + (IF LastHand.game_state.position \in {"BTN", "CO"} THEN 1000 ELSE 0)
              + (IF command.verb = "raise" THEN 500 ELSE 0)

C5_Witness ==
    /\ JustPlayed
    /\ command.verb = "bet"
    /\ LastHand.game_state.position = "CO"
    /\ showdown.win_probability = showdown.hand_strength + 1000

\* C6: a non-fold action on a preflop situation with an empty board deals
\* flop, turn and river: the board at showdown has exactly 5 cards.
C6_FullBoardAtShowdown ==
    (JustPlayed /\ LastHand.game_state.street = "preflop" /\ LastHand.game_state.board = <<>>)
        => /\ Len(result.final_board) = 5
           /\ Len(showdown.board_cards) = 5

\* C7: when the progression dealt at least one community card, the strength
\* behind win_probability is the estimate on the board as it stands at
\* showdown.
C7_StrengthOfFinalBoard ==
    (JustPlayed /\ Len(showdown.board_cards) > Len(LastHand.game_state.board))
        => showdown.hand_strength =
              evaluate_hand_strength(LastHand.game_state.hole_cards, showdown.board_cards)

\* The amount C8 speaks of: the explicit positive amount of a bet or raise,
\* bet_to_call for check and call
C8_Covered ==
    \/ command.verb \in {"check", "call"}
    \/ command.verb \in {"bet", "raise"} /\ command.arg = "number" /\ command.amount > 0

C8_Amount ==
    IF command.verb \in {"check", "call"} THEN LastHand.game_state.bet_to_call
    ELSE command.amount

\* C8: the hero's non-fold action adds exactly one amount X to the pot before
\* any street is dealt (the explicit positive bet or raise amount, bet_to_call
\* for check and call), and the same X is the total_invested behind the stack
\* delta.
C8_ActionAmount ==
    (JustPlayed /\ C8_Covered)
        => /\ showdown.pot_after_action = LastHand.game_state.pot_size + C8_Amount
           /\ showdown.total_invested = C8_Amount
           /\ \A i \in DOMAIN result.hand_progression :
                 result.hand_progression[i].kind = "flop"
                    => result.hand_progression[i].pot = showdown.pot_after_action
           /\ result.final_pot >= showdown.pot_after_action
           /\ result.amount_change \in {result.final_pot - C8_Amount, 0 - C8_Amount}

C8_Witness ==
    /\ JustPlayed
    /\ command = Command("raise", "number", 600)
    /\ LastHand.game_state.pot_size = 500
    /\ LastHand.game_state.bet_to_call = 400
    /\ showdown.pot_after_action = 1100
    /\ \E i \in DOMAIN result.hand_progression : result.hand_progression[i].kind = "flop"

\* C9: a dealt situation has pairwise distinct cards across hole cards and
\* board.
C9_DealtCardsDistinct ==
    current_game_state # NoHand => NoDuplicates(HoleAndBoard(current_game_state))

\* C10: right after reset, current_stack is starting_stack, session_hands and
\* the hand history are empty, hands_played is 0; starting_stack never changes.
C10_Reset ==
    /\ starting_stack = 10000
    /\ command.verb = "reset"
          => /\ current_stack = starting_stack
             /\ session_hands = <<>>
             /\ current_hand_history = <<>>
             /\ hands_played = 0

C10_Witness ==
    /\ command.verb = "reset"
    /\ result.outcome = "win"
    /\ current_game_state # NoHand
    /\ current_stack = starting_stack

\* C11: with N >= 1 recorded hands the stats command reports the win rate
\* (number of records with outcome win) / N, a fold or a loss counting in N
\* only (shown in tenths of a percent, so within half a tenth of the
\* quotient); with an empty ledger, initially or after a reset, it reports
\* that no hands were played and computes no quotient.
C11_WinRate ==
    command.verb = "stats" =>
        IF session_hands = <<>> THEN stats = [shown |-> "no hands"]
        ELSE LET N == Len(session_hands)
                 wins == Cardinality({i \in 1..N : session_hands[i].outcome = "win"})
             IN  /\ stats.shown = "stats"
                 /\ stats.hands_played = N
                 /\ stats.total_profit = current_stack - starting_stack
                 /\ 2 * abs(stats.win_rate * N - 1000 * wins) <= N
                 /\ (wins = 0 <=> stats.win_rate = 0)
                 /\ (wins = N <=> stats.win_rate = 1000)

C11_Witness ==
    /\ command.verb = "stats"
    /\ Len(session_hands) = 2
    /\ session_hands[1].outcome = "fold"
    /\ session_hands[2].outcome = "win"
    /\ stats.shown = "stats"
    /\ stats.win_rate = 500

\* A record was appended to the ledger by this step
Resolved == Len(session_hands') = Len(session_hands) + 1

\* C12: each dealt hand is resolved at most once.  An action command is
\* processed only while a dealt hand is active, resolving it clears the active
\* hand, and an action command with no active hand leaves current_stack,
\* session_hands and hands_played unchanged; hence the ledger never holds more
\* records than hands were dealt since the last reset.  current_hand_history
\* is set by every deal and emptied only by a reset, so it is empty exactly
\* when no hand was dealt since the last reset (or the start), and then the
\* ledger has to be empty.
C12_ResolvedAtMostOnce ==
    /\ [](current_hand_history = <<>> => session_hands = <<>>)
    /\ [][/\ Resolved => (current_game_state # NoHand /\ current_game_state' = NoHand)
          /\ (IsActionCommand(command') /\ current_game_state = NoHand)
                => UNCHANGED <<current_stack, session_hands, hands_played>>]_vars

\* C13 as stated: for a bet or raise command whose amount is omitted or cannot
\* be parsed as a number, the amount used is max(2 x bet_to_call, 5).
C13_DefaultAmount ==
    (JustPlayed /\ IsBetOrRaise(command) /\ command.arg \in {"none", "malformed"})
        => showdown.total_invested = max(2 * LastHand.game_state.bet_to_call, 500)

\* C13 amended: for a bet or raise command whose amount is omitted the amount
\* used is max(2 x bet_to_call, 5); for one whose amount cannot be parsed as a
\* number it is 5, whatever the bet to call.
C13_DefaultAmountAmended ==
    (JustPlayed /\ IsBetOrRaise(command))
        => /\ command.arg = "none"
                => showdown.total_invested = max(2 * LastHand.game_state.bet_to_call, 500)
           /\ command.arg = "malformed" => showdown.total_invested = 500

C13_Witness ==
    /\ JustPlayed
    /\ IsBetOrRaise(command)
    /\ command.arg = "malformed"
    /\ showdown.total_invested = 500
    /\ max(2 * LastHand.game_state.bet_to_call, 500) = 800

\* C14: a bet or raise command with a malformed amount never fails the hand:
\* the amount falls back to the default raise size 5, the hand is resolved to
\* win or lose, and exactly one record is appended to the ledger.
C14_MalformedAmount ==
    [][(current_game_state # NoHand /\ IsBetOrRaise(command') /\ command'.arg = "malformed")
        => /\ showdown'.taken
           /\ showdown'.total_invested = 500
           /\ showdown'.pot_after_action = current_game_state.pot_size + 500
           /\ result'.outcome \in {"win", "lose"}
           /\ result'.action = command'
           /\ Len(session_hands') = Len(session_hands) + 1
           /\ SubSeq(session_hands', 1, Len(session_hands)) = session_hands
           /\ session_hands'[Len(session_hands')].outcome = result'.outcome
           /\ current_game_state' = NoHand]_vars

C14_Witness ==
    /\ JustPlayed
    /\ command = Command("raise", "malformed", 0)
    /\ LastHand.game_state.bet_to_call = 400
    /\ showdown.total_invested = 500
    /\ LastHand.outcome = "lose"

\* fold, check, call, or the word bet or raise optionally followed by an amount
IsPlayerActionLine(line) ==
    \/ line.verb \in {"fold", "check", "call"} /\ line.arg = "none"
    \/ line.verb \in {"bet", "raise"}

\* C15: the command loop treats an input as a player action exactly when it
\* is fold, check, call, or the word bet or raise optionally followed by an
\* amount: such a line resolves the active hand, and every other line that is
\* not another listed command changes neither the stack nor the ledger nor the
\* active hand.
C15_PlayerActions ==
    [][/\ (IsPlayerActionLine(command') /\ current_game_state # NoHand) => Resolved
       /\ (~IsPlayerActionLine(command') /\ command'.verb \notin ListedCommands)
             => UNCHANGED <<current_stack, session_hands, current_game_state>>]_vars

\* evaluate_hand_strength has returned for two hole cards
Rated == probe.value # NotReturned /\ Len(probe.hero_cards) = 2

\* C16: with an empty board evaluate_hand_strength returns exactly 0.85 for a
\* pair of A, K or Q; 0.75 for a pair of J, T or 9; 0.65 for any other pair;
\* for unpaired hands containing an A or K, 0.70 if suited and 0.65 if
\* offsuit; for other unpaired hands 0.50 if suited and 0.40 otherwise.
C16_PreflopStrength ==
    (Rated /\ probe.board_cards = <<>>) =>
        LET r1 == probe.hero_cards[1].rank
            r2 == probe.hero_cards[2].rank
            suited == probe.hero_cards[1].suit = probe.hero_cards[2].suit
        IN  /\ (r1 = r2 /\ r1 \in {"A", "K", "Q"}) => probe.value = 8500
            /\ (r1 = r2 /\ r1 \in {"J", "T", "9"}) => probe.value = 7500
            /\ (r1 = r2 /\ r1 \in {"2", "3", "4", "5", "6", "7", "8"}) => probe.value = 6500
            /\ (r1 # r2 /\ "A" \in {r1, r2} /\ suited) => probe.value = 7000
            /\ (r1 # r2 /\ "K" \in {r1, r2} /\ suited) => probe.value = 7000
            /\ (r1 # r2 /\ "A" \in {r1, r2} /\ ~suited) => probe.value = 6500
            /\ (r1 # r2 /\ "K" \in {r1, r2} /\ ~suited) => probe.value = 6500
            /\ (r1 # r2 /\ {r1, r2} \cap {"A", "K"} = {} /\ suited) => probe.value = 5000
            /\ (r1 # r2 /\ {r1, r2} \cap {"A", "K"} = {} /\ ~suited) => probe.value = 4000

C16_Witness ==
    /\ Rated
    /\ probe.board_cards = <<>>
    /\ probe.hero_cards = <<C("9", "s"), C("9", "h")>>
    /\ probe.value = 7500

\* C17: for every pair of hole cards and every board of 0, 3, 4 or 5 cards
\* evaluate_hand_strength returns a value in [0,1]; for hole-card input with
\* fewer than two parsed cards it returns the fixed default 0.5.
C17_StrengthRange ==
    probe.value # NotReturned =>
        /\ probe.value \in 0..10000
        /\ Len(probe.hero_cards) < 2 => probe.value = 5000

C17_Witness ==
    /\ probe.value = 5000
    /\ Len(probe.hero_cards) = 1
    /\ Len(probe.board_cards) = 4

\* The number of distinct suits on the board
BoardSuits == Cardinality({probe.board_cards[i].suit : i \in DOMAIN probe.board_cards})

\* What evaluate_hand_strength returns for the same hole cards and no board
PreflopValue == evaluate_hand_strength(probe.hero_cards, <<>>)

\* C18: for every hole-card pair and every non-empty board the strength is
\* never greater than the strength of the same hole cards with an empty board;
\* when the board shows at most 2 distinct suits the strength is multiplied by
\* 0.9, and this factor stacks with the straight factor (0.81 when both
\* apply).  Values are in 1/10000, so 100 * value = 81 * preflop value.
C18_BoardNeverHelps ==
    (Rated /\ probe.board_cards # <<>>) =>
        /\ probe.value <= PreflopValue
        /\ BoardSuits <= 2 =>
              \/ 100 * probe.value = 90 * PreflopValue
              \/ 100 * probe.value = 81 * PreflopValue
        /\ BoardSuits > 2 =>
              \/ probe.value = PreflopValue
              \/ 100 * probe.value = 90 * PreflopValue
        /\ (BoardSuits <= 2 /\ StraightPossible(probe.board_cards))
              => 100 * probe.value = 81 * PreflopValue
        /\ (BoardSuits <= 2 /\ ~StraightPossible(probe.board_cards))
              => 100 * probe.value = 90 * PreflopValue

C18_Witness ==
    /\ Rated
    /\ probe.hero_cards = <<C("A", "h"), C("A", "s")>>
    /\ probe.board_cards = <<C("2", "h"), C("3", "h"), C("K", "d")>>
    /\ probe.value = 6885

\* Position in the rank order 2, 3, ..., 9, T, J, Q, K, A
RankIndex(rank) == IndexOf(ranks, rank)

\* Two distinct cards of the board have ranks at distance exactly 1
AdjacentRanksOnBoard ==
    \E i, j \in DOMAIN probe.board_cards :
        abs(RankIndex(probe.board_cards[i].rank) - RankIndex(probe.board_cards[j].rank)) = 1

\* The value returned shows the straight factor: 0.9 of the preflop value on
\* a board of three or more suits, 0.81 of it where the flush factor applies
StraightFactorApplied ==
    100 * probe.value = (IF BoardSuits <= 2 THEN 81 ELSE 90) * PreflopValue

\* C19: the straight-possible factor 0.9 is applied exactly when the
\* non-empty board contains two distinct cards whose ranks are adjacent in the
\* rank order 2,3,...,9,T,J,Q,K,A (rank distance exactly 1), and not
\* otherwise, in particular not merely because two board cards share a rank.
C19_StraightFactor ==
    (Rated /\ probe.board_cards # <<>>) => (StraightFactorApplied <=> AdjacentRanksOnBoard)

\* current_pot before pass i of the street loop
PotBefore(i) == IF i = 1 THEN showdown.pot_after_action ELSE showdown.pot_trace[i - 1].pot

\* What pass i of the street loop added to the pot
Increment(i) == showdown.pot_trace[i].pot - PotBefore(i)

\* C20: during a progression, dealing the flop adds nothing to the pot,
\* dealing the turn adds an amount in [5,15] and dealing the river an amount
\* in [10,25]; a street that is not dealt adds nothing, so final_pot =
\* pot_size + total_invested + the increments of the streets actually dealt,
\* and the pot never decreases during the hand.
C20_PotIncrements ==
    JustPlayed =>
        LET game_state == LastHand.game_state
            trace      == showdown.pot_trace
            turn_dealt == Len(game_state.board) <= 3 /\ Len(showdown.board_cards) >= 4
            river_dealt == Len(game_state.board) <= 4 /\ Len(showdown.board_cards) = 5
        IN  /\ showdown.pot_after_action = game_state.pot_size + showdown.total_invested
            /\ showdown.pot_after_action >= game_state.pot_size
            /\ \A i \in DOMAIN trace :
                  /\ trace[i].dealt <=>
                        \E k \in DOMAIN result.hand_progression :
                            result.hand_progression[k].kind = trace[i].street
                  /\ ~trace[i].dealt => Increment(i) = 0
                  /\ trace[i].street = "flop" => Increment(i) = 0
                  /\ (trace[i].street = "turn" /\ trace[i].dealt)
                        => (turn_dealt /\ Increment(i) \in 500..1500)
                  /\ (trace[i].street = "river" /\ trace[i].dealt)
                        => (river_dealt /\ Increment(i) \in 1000..2500)
                  /\ Increment(i) >= 0
            /\ turn_dealt => \E i \in DOMAIN trace : trace[i].street = "turn" /\ trace[i].dealt
            /\ river_dealt => \E i \in DOMAIN trace : trace[i].street = "river" /\ trace[i].dealt
            /\ result.final_pot =
                  IF trace = <<>> THEN showdown.pot_after_action ELSE trace[Len(trace)].pot
            /\ ~turn_dealt /\ ~river_dealt => result.final_pot = showdown.pot_after_action
            /\ result.final_pot >= showdown.pot_after_action

C20_Witness ==
    /\ JustPlayed
    /\ LastHand.game_state.board = <<>>
    /\ Len(showdown.board_cards) = 4
    /\ Len(showdown.pot_trace) = 3
    /\ Increment(1) = 0
    /\ Increment(2) = 1500
    /\ ~showdown.pot_trace[3].dealt
    /\ result.final_pot = LastHand.game_state.pot_size + showdown.total_invested + 1500

\* seq starts with the cards of prefix
StartsWithCards(seq, prefix) ==
    Len(prefix) <= Len(seq) /\ SubSeq(seq, 1, Len(prefix)) = prefix

\* The progression log has an entry of this kind
Logged(kind) ==
    \E k \in DOMAIN result.hand_progression : result.hand_progression[k].kind = kind

\* board_cards before pass i of the street loop
BoardBefore(i) == IF i = 1 THEN LastHand.game_state.board ELSE showdown.pot_trace[i - 1].board

\* C21: when a situation starts with a partial board (3 or 4 cards), the
\* progression keeps the existing board cards unchanged as a prefix of the
\* final board and synthesizes only the missing streets (no flop entry when a
\* flop exists, no turn entry when a turn exists); throughout any progression
\* the board length is in {0,3,4,5} and only grows.
C21_PartialBoardKept ==
    JustPlayed =>
        LET board == LastHand.game_state.board
            trace == showdown.pot_trace
        IN  /\ Len(board) \in {3, 4} =>
                  /\ StartsWithCards(result.final_board, board)
                  /\ StartsWithCards(showdown.board_cards, board)
                  /\ ~Logged("flop")
                  /\ Len(board) = 4 => ~Logged("turn")
                  /\ Len(board) = 3 => Logged("turn")
                  /\ Logged("river")
                  /\ Len(result.final_board) = 5
            /\ Len(board) \in {0, 3, 4, 5}
            /\ \A i \in DOMAIN trace :
                  /\ Len(trace[i].board) \in {0, 3, 4, 5}
                  /\ StartsWithCards(trace[i].board, BoardBefore(i))
            /\ showdown.board_cards = (IF trace = <<>> THEN board ELSE trace[Len(trace)].board)
            /\ StartsWithCards(result.final_board, showdown.board_cards)

C21_Witness ==
    /\ JustPlayed
    /\ LastHand.game_state.board = Board_Kd7c2s
    /\ Len(showdown.pot_trace) = 2
    /\ Len(showdown.pot_trace[1].board) = 4
    /\ Len(result.final_board) = 5
    /\ StartsWithCards(result.final_board, Board_Kd7c2s)
    /\ Logged("turn")
    /\ ~Logged("flop")

\* Position of a street entry's kind in the order flop, turn, river
StreetRank(kind) == IndexOf(street_order, kind)

\* What simulate_hand_progression returns for the active hand
Simulated(action, rnd) ==
    simulate_hand_progression(action, ParseBetAmount(action, current_game_state),
                              current_game_state, rnd).ret

\* The other value of the opponent's action
OtherOpponentAction(rnd) ==
    [rnd EXCEPT !.opponent_action = IF @ = "calls" THEN "raises" ELSE "calls"]

\* C22: in every non-fold progression log the hero's action entry is first,
\* street entries appear in the order flop, turn, river, exactly one
\* opponent-action entry (calls or raises) follows all street entries and
\* precedes the showdown entry, and the result entry is last; the opponent
\* action value changes neither final_pot nor amount_change (the same hand
\* simulated with the other opponent action returns the same two values).
C22_ProgressionOrder ==
    /\ JustPlayed =>
          LET log == result.hand_progression
              n   == Len(log)
          IN  /\ n >= 4
              /\ log[1].kind = "action"
              /\ log[1].note = command.verb
              /\ \A k \in 2..(n - 3) : log[k].kind \in {"flop", "turn", "river"}
              /\ \A j, k \in 2..(n - 3) :
                    j < k => StreetRank(log[j].kind) < StreetRank(log[k].kind)
              /\ log[n - 2].kind = "opponent"
              /\ log[n - 2].note \in {"calls", "raises"}
              /\ Cardinality({k \in 1..n : log[k].kind = "opponent"}) = 1
              /\ log[n - 1].kind = "showdown"
              /\ log[n].kind = (IF result.outcome = "win" THEN "winner" ELSE "lose")
    /\ (current_game_state # NoHand /\ session_hands = <<>>) =>
          \A action \in HandCommands \ {Command("fold", "none", 0)}, rnd \in HandRolls :
              \E one \in {Simulated(action, rnd)},
                 other \in {Simulated(action, OtherOpponentAction(rnd))} :
                  /\ one.final_pot = other.final_pot
                  /\ one.amount_change = other.amount_change

C22_Witness ==
    /\ JustPlayed
    /\ Len(result.hand_progression) = 7
    /\ result.hand_progression[2].kind = "flop"
    /\ result.hand_progression[3].kind = "turn"
    /\ result.hand_progression[4].kind = "river"
    /\ result.hand_progression[5].note = "raises"
    /\ result.outcome = "lose"

\* C23: the hand history built when a hand is dealt is in chronological
\* street order, starts with the preflop entry, ends with the current
\* situation, and contains exactly one entry per street from preflop up to
\* the current street, each later entry's board extending the earlier
\* entry's board.
C23_HistoryPerStreet ==
    current_game_state # NoHand =>
        LET history == current_hand_history
            n       == Len(history)
        IN  /\ n >= 1
            /\ history[1].street = "preflop"
            /\ history[n] = current_game_state
            /\ n = IndexOf(street_order, current_game_state.street)
            /\ \A i \in 1..n : history[i].street = street_order[i]
            /\ \A i \in 1..(n - 1) : StartsWithCards(history[i + 1].board, history[i].board)

\* C24: when an advisory agent raises while producing its recommendation,
\* get_agent_recommendations still returns exactly one record per agent in
\* agent order, the failing agent's record carrying confidence 0 and an
\* explanatory text, and neither the dealt hand nor the session (stack,
\* ledger) is aborted or changed.
C24_AgentFailure ==
    [][(command'.verb = "new" /\ ~Raises(agents)) =>
          /\ Len(current_recommendations') = Len(agents)
          /\ \A i \in DOMAIN agents :
                /\ current_recommendations'[i].agent = agents[i]
                /\ current_recommendations'[i].reasoning \in {"Agent error", "analysis"}
                /\ current_recommendations'[i].reasoning = "Agent error" =>
                      /\ current_recommendations'[i].confidence = 0
                      /\ current_recommendations'[i].recommendation =
                            "Unable to analyze - check connection"
          /\ current_game_state' # NoHand
          /\ current_hand_history' # <<>>
          /\ UNCHANGED <<current_stack, session_hands, hands_played, agents>>]_vars

C24_Witness ==
    /\ command.verb = "new"
    /\ current_game_state # NoHand
    /\ Len(current_recommendations) = 4
    /\ current_recommendations[1].confidence = 8000
    /\ current_recommendations[2].agent = "PositionAgent"
    /\ current_recommendations[2].reasoning = "Agent error"
    /\ current_recommendations[2].confidence = 0
    /\ current_recommendations[4].reasoning = "analysis"
    /\ Len(session_hands) = 1

\* The last command was a deal that failed: get_agent_recommendations raised
DealFailed == command.verb = "new" /\ Raises(agents)

\* C28: if dealing a new hand fails because agent recommendations cannot be
\* obtained, no hand is active afterwards: a following action command is
\* rejected and changes neither current_stack nor session_hands.
C28_FailedDealNoHand ==
    /\ [](DealFailed => current_game_state = NoHand)
    /\ [][(DealFailed /\ IsActionCommand(command'))
            => UNCHANGED <<current_stack, session_hands>>]_vars

\* The board length of each street
BoardLength(street) ==
    CASE street = "preflop" -> 0 [] street = "flop" -> 3 [] street = "turn" -> 4
      [] street = "river" -> 5

\* This step is a call of advance_street that changed the engine
Advanced == engine' # engine /\ engine'.called = "advance_street"

\* C25: after setup_hand and any number of advance_street calls, the street
\* and the board length always agree (preflop 0, flop 3, turn 4, river 5),
\* each advance_street moves exactly one street forward in the order preflop,
\* flop, turn, river while keeping the already dealt board cards unchanged,
\* and advance_street at the river changes nothing.
C25_StreetAndBoard ==
    /\ [](engine.players # <<>> =>
            /\ engine.street \in Range(street_order)
            /\ Len(engine.board) = BoardLength(engine.street))
    /\ [][Advanced =>
            /\ engine'.players = engine.players
            /\ IF engine.street = "river"
               THEN engine'.street = "river" /\ engine'.board = engine.board
               ELSE /\ engine'.street = street_order[IndexOf(street_order, engine.street) + 1]
                    /\ StartsWithCards(engine'.board, engine.board)
                    /\ Len(engine'.board) > Len(engine.board)]_vars

C25_Witness ==
    /\ engine.called = "advance_street"
    /\ Len(engine.players) = 6
    /\ engine.street = "river"
    /\ Len(engine.board) = 5

\* C26: after setup_hand (including with explicitly given hero cards, as in
\* create_scenario) and any number of advance_street calls, no card appears
\* twice among all players' hole cards and the board.
C26_EngineCardsDistinct ==
    engine.players # <<>> => NoDuplicates(HoleCardsOf(engine.players) \o engine.board)

\* C27: the bankroll never goes negative: current_stack >= 0 in every
\* reachable state of the session
C27_StackNeverNegative == current_stack >= 0

\* C29: whenever the main loop waits for a command, hands_played is the
\* number of records in session_hands and the i-th record carries
\* hand_number i; a reset empties the ledger and sets the counter to 0, so
\* the numbering starts again at 1
C29_HandsCounted ==
    /\ [](/\ hands_played = Len(session_hands)
          /\ \A i \in DOMAIN session_hands : session_hands[i].hand_number = i)
    /\ [][command'.verb = "reset" => hands_played' = 0 /\ session_hands' = <<>>]_vars

C29_Witness ==
    /\ JustActed
    /\ hands_played = 2
    /\ Len(session_hands) = 2
    /\ session_hands[1].hand_number = 1
    /\ session_hands[2].hand_number = 2

\* C30: along the hand history built by generate_hand_with_progression the
\* pot_size never decreases from one entry to the next
C30_HistoryPotNeverDecreases ==
    \A i \in DOMAIN current_hand_history :
        i > 1 => current_hand_history[i].pot_size >= current_hand_history[i - 1].pot_size

=============================================================================
